---- MODULE Spec2Model ----
(***************************************************************************)
(* nextcloud_aio: the Login Flow v2 polling loop                           *)
(* (api/loginflow.py, LoginFlowV2.login_flow_wait_confirm) and the group   *)
(* folder request builders (api/ocs/groupfolders.py, GroupFolderManager).  *)
(*                                                                         *)
(* A login_flow_wait_confirm call is a coroutine: it runs atomically from  *)
(* one await to the next (asyncio is cooperative), so there is one action  *)
(* per stretch of code between two awaits.  Time is a global clock `now`   *)
(* counted in ticks of 1/TicksPerSec second; it is the clock read by       *)
(* dt.datetime.now() and is taken to be monotonic.  A request's round trip *)
(* is the time that passes while it is in flight; asyncio.sleep(1) lasts   *)
(* a second or more.  self.request and self.ocs_query are collaborators    *)
(* outside these files: a request is answered with any status, or fails    *)
(* with a transport error; the body of an answer parses (response.json())  *)
(* to a value that names the request it answers.                           *)
(***************************************************************************)
EXTENDS Integers, Sequences, FiniteSets, TLC

\* ------------------------------------------------------------------ bounds
TicksPerSec == 2
MaxTimeout == 3
MaxPolls == 7
MaxRtt == 2
MaxLate == 3
MaxOversleep == 1

\* ------------------------------------------------------- program constants
\* timedelta.seconds is the seconds field of a timedelta: 0 .. 86399.
SecondsPerDay == 86400
\* The "still pending" status tested at lines 70 and 78.
NotFound == 404
\* asyncio.sleep(1)
SleepSeconds == 1

AllCalls == {1, 2}
SoloCalls == {1}
Tokens == {"abc", "xyz"}
Statuses == {200, NotFound, 500}
Day == SecondsPerDay * TicksPerSec
\* A round trip of one second less than a day (self.request sets no timeout).
LongRtt == Day - TicksPerSec
MaxNow == Day + MaxLate * TicksPerSec
Timeouts == (0 .. MaxTimeout) \cup {SecondsPerDay}
ConcTimeouts == 0 .. (MaxTimeout - 1)
ConcStatuses == {200, NotFound}
\* The second call polls the token of the first or another one.
ConcTokens(c) == IF c = 1 THEN {"abc"} ELSE Tokens
\* Concurrent calls are run on a clock of whole seconds.
ConcMaxRtt == TicksPerSec
Steps == {1, LongRtt}
ConcSteps == {TicksPerSec}

VARIABLES
    now,            \* the wall clock, in ticks
    pc,             \* per call: where the coroutine is suspended, or how it ended
    token,          \* per call: the `token` argument
    timeout,        \* per call: the `timeout` argument
    start_dt,       \* per call: start_dt
    running_time,   \* per call: running_time
    response,       \* per call: response
    wake,           \* per call: when the pending asyncio.sleep(1) ends
    result,         \* per call: what the call returned or raised
    wire,           \* the transport: the poll requests in flight
    polls,          \* history: per call, the poll requests issued so far
    sentAt,         \* history: per call, when the request in flight was issued
    maxRtt,         \* history: per call, the longest round trip so far
    sampled,        \* history: per call, whole seconds really elapsed at line 75
    actor,          \* history: the call that took the last step (0: the clock)
    endedAt,        \* history: per call, when it returned or raised
    overslept,      \* history: per call, the longest a sleep lasted beyond its second
    gf_op,          \* the last GroupFolderManager operation and its arguments
    ocs_calls,      \* the ocs_query calls that operation made
    ocs_reply,      \* what ocs_query answered
    gf_result       \* what the operation returned

loginVars == <<now, pc, token, timeout, start_dt, running_time, response, wake,
               result, wire, polls, sentAt, maxRtt, sampled, actor, endedAt, overslept>>
gfVars == <<gf_op, ocs_calls, ocs_reply, gf_result>>
vars == <<loginVars, gfVars>>

NoResponse == [status_code |-> 0, json |-> <<"", 0>>]
NoResult == [kind |-> "none", value |-> <<"", 0>>]

InFlight == {"initial_request", "loop_request"}
Suspended == InFlight \cup {"sleep"}
Ended == {"returned", "timeout", "transport_error", "cancelled"}

\* Mutant: the elapsed time in clock ticks, taken for seconds.
TimedeltaSeconds_Ticks(d) == d % (SecondsPerDay * TicksPerSec)

\* (dt.datetime.now() - start_dt).seconds, for an elapsed time of d >= 0 ticks.
TimedeltaSeconds(d) == (d \div TicksPerSec) % SecondsPerDay

\* The poll request of lines 65-68 and 71-74.
PollRequest(c, tok, n) ==
    [id |-> c, n |-> n, method |-> "POST", url |-> "/index.php/login/v2/poll",
     token |-> tok]

\* The answer of the transport to poll n of call c.
Answer(c, st) == [status_code |-> st, json |-> <<token[c], polls[c]>>]

\* Mutant: the loop goes on whatever the status, until the timeout.
LoopCondition_IgnoresStatus(resp, rt, T) == rt < T

\* Mutant: a server error is polled again like a 404.
LoopCondition_RetriesServerErrors(resp, rt, T) ==
    resp.status_code \in {NotFound, 500} /\ rt < T

\* The while condition of line 70.
LoopCondition(resp, rt, T) == resp.status_code = NotFound /\ rt < T

\* Lines 70-82 from the test of the while condition on, with the current
\* response resp and running time rt and the requests w left in flight:
\* another poll (71-74), the timeout (78-80), or the parsed body (82).
FromLoopTest(c, resp, rt, w) ==
    IF LoopCondition(resp, rt, timeout[c])
    THEN /\ polls[c] < MaxPolls
         /\ wire' = w \cup {PollRequest(c, token[c], polls[c] + 1)}
         /\ polls' = [polls EXCEPT ![c] = @ + 1]
         /\ sentAt' = [sentAt EXCEPT ![c] = now]
         /\ pc' = [pc EXCEPT ![c] = "loop_request"]
         /\ UNCHANGED <<result, endedAt>>
    ELSE /\ wire' = w
         /\ pc' = [pc EXCEPT ![c] =
                     IF resp.status_code = NotFound THEN "timeout" ELSE "returned"]
         /\ result' = [result EXCEPT ![c] =
                     IF resp.status_code = NotFound
                     THEN [kind |-> "NextCloudLoginFlowTimeout", value |-> <<"", 0>>]
                     ELSE [kind |-> "return", value |-> resp.json]]
         /\ endedAt' = [endedAt EXCEPT ![c] = now]
         /\ UNCHANGED <<polls, sentAt>>

\* The requests in flight without those of call c.
Without(c) == {q \in wire : q.id # c}

\* The longest round trip of call c, the one ending now included.
RoundTrips(c) == IF now - sentAt[c] > maxRtt[c] THEN now - sentAt[c] ELSE maxRtt[c]

\* Lines 62-68: the call starts and awaits its first poll.
Call(c, tok, T) ==
    /\ pc[c] = "idle"
    /\ token' = [token EXCEPT ![c] = tok]
    /\ timeout' = [timeout EXCEPT ![c] = T]
    /\ start_dt' = [start_dt EXCEPT ![c] = now]
    /\ running_time' = [running_time EXCEPT ![c] = 0]
    /\ wire' = wire \cup {PollRequest(c, tok, 1)}
    /\ polls' = [polls EXCEPT ![c] = 1]
    /\ sentAt' = [sentAt EXCEPT ![c] = now]
    /\ pc' = [pc EXCEPT ![c] = "initial_request"]
    /\ actor' = c
    /\ UNCHANGED <<now, response, wake, result, maxRtt, sampled, endedAt, overslept, gfVars>>

\* Lines 65-70: the first poll is answered; the while condition is tested.
ReceiveInitial(c, st) ==
    /\ pc[c] = "initial_request"
    /\ response' = [response EXCEPT ![c] = Answer(c, st)]
    /\ maxRtt' = [maxRtt EXCEPT ![c] = RoundTrips(c)]
    /\ FromLoopTest(c, Answer(c, st), running_time[c], Without(c))
    /\ actor' = c
    /\ UNCHANGED <<now, token, timeout, start_dt, running_time, wake, sampled, overslept, gfVars>>

\* Mutant: the running time is an attribute of the client, shared by its calls.
ReceiveLoop_SharedRunningTime(c, st) ==
    /\ pc[c] = "loop_request"
    /\ response' = [response EXCEPT ![c] = Answer(c, st)]
    /\ running_time' = [d \in AllCalls |-> TimedeltaSeconds(now - start_dt[c])]
    /\ wake' = [wake EXCEPT ![c] = now + SleepSeconds * TicksPerSec]
    /\ pc' = [pc EXCEPT ![c] = "sleep"]
    /\ wire' = Without(c)
    /\ maxRtt' = [maxRtt EXCEPT ![c] = RoundTrips(c)]
    /\ sampled' = [sampled EXCEPT ![c] = (now - start_dt[c]) \div TicksPerSec]
    /\ actor' = c
    /\ UNCHANGED <<now, token, timeout, start_dt, result, polls, sentAt, endedAt, overslept, gfVars>>

\* Lines 71-76: a poll of the loop is answered, the running time is read
\* off the clock and the call sleeps for a second.
ReceiveLoop(c, st) ==
    /\ pc[c] = "loop_request"
    /\ response' = [response EXCEPT ![c] = Answer(c, st)]
    /\ running_time' = [running_time EXCEPT ![c] = TimedeltaSeconds(now - start_dt[c])]
    /\ wake' = [wake EXCEPT ![c] = now + SleepSeconds * TicksPerSec]
    /\ pc' = [pc EXCEPT ![c] = "sleep"]
    /\ wire' = Without(c)
    /\ maxRtt' = [maxRtt EXCEPT ![c] = RoundTrips(c)]
    /\ sampled' = [sampled EXCEPT ![c] = (now - start_dt[c]) \div TicksPerSec]
    /\ actor' = c
    /\ UNCHANGED <<now, token, timeout, start_dt, result, polls, sentAt, endedAt, overslept, gfVars>>

\* Mutant: an `if` in place of the `while`: after one poll of the loop and
\* its sleep the call ends.
Wake_IfNotWhile(c) ==
    /\ pc[c] = "sleep"
    /\ now >= wake[c]
    /\ pc' = [pc EXCEPT ![c] =
                IF response[c].status_code = NotFound THEN "timeout" ELSE "returned"]
    /\ result' = [result EXCEPT ![c] =
                IF response[c].status_code = NotFound
                THEN [kind |-> "NextCloudLoginFlowTimeout", value |-> <<"", 0>>]
                ELSE [kind |-> "return", value |-> response[c].json]]
    /\ endedAt' = [endedAt EXCEPT ![c] = now]
    /\ overslept' = [overslept EXCEPT ![c] = IF now - wake[c] > @ THEN now - wake[c] ELSE @]
    /\ actor' = c
    /\ UNCHANGED <<now, token, timeout, start_dt, running_time, response, wake,
                   wire, polls, sentAt, maxRtt, sampled, gfVars>>

\* Lines 76, 70-82: the sleep ends; the while condition is tested.
Wake(c) ==
    /\ pc[c] = "sleep"
    /\ now >= wake[c]
    /\ FromLoopTest(c, response[c], running_time[c], wire)
    /\ overslept' = [overslept EXCEPT ![c] = IF now - wake[c] > @ THEN now - wake[c] ELSE @]
    /\ actor' = c
    /\ UNCHANGED <<now, token, timeout, start_dt, running_time, response, wake,
                   maxRtt, sampled, gfVars>>

\* Mutant: a failed request is caught and sent again.
TransportError_Retried(c) ==
    /\ pc[c] \in InFlight
    /\ polls[c] < MaxPolls
    /\ result' = [result EXCEPT ![c] = [kind |-> "TransportError", value |-> <<"", 0>>]]
    /\ wire' = Without(c) \cup {PollRequest(c, token[c], polls[c] + 1)}
    /\ polls' = [polls EXCEPT ![c] = @ + 1]
    /\ sentAt' = [sentAt EXCEPT ![c] = now]
    /\ maxRtt' = [maxRtt EXCEPT ![c] = RoundTrips(c)]
    /\ actor' = c
    /\ UNCHANGED <<now, pc, token, timeout, start_dt, running_time, response, wake,
                   sampled, endedAt, overslept, gfVars>>

\* Lines 65 and 71: self.request raises; nothing catches it.
TransportError(c) ==
    /\ pc[c] \in InFlight
    /\ pc' = [pc EXCEPT ![c] = "transport_error"]
    /\ result' = [result EXCEPT ![c] = [kind |-> "TransportError", value |-> <<"", 0>>]]
    /\ wire' = Without(c)
    /\ maxRtt' = [maxRtt EXCEPT ![c] = RoundTrips(c)]
    /\ endedAt' = [endedAt EXCEPT ![c] = now]
    /\ actor' = c
    /\ UNCHANGED <<now, token, timeout, start_dt, running_time, response, wake,
                   polls, sentAt, sampled, overslept, gfVars>>

\* Mutant: the loop catches the CancelledError raised in its sleep and polls on.
Cancel_Swallowed(c) ==
    /\ pc[c] = "sleep"
    /\ polls[c] < MaxPolls
    /\ result' = [result EXCEPT ![c] = [kind |-> "CancelledError", value |-> <<"", 0>>]]
    /\ wire' = wire \cup {PollRequest(c, token[c], polls[c] + 1)}
    /\ polls' = [polls EXCEPT ![c] = @ + 1]
    /\ sentAt' = [sentAt EXCEPT ![c] = now]
    /\ pc' = [pc EXCEPT ![c] = "loop_request"]
    /\ actor' = c
    /\ UNCHANGED <<now, token, timeout, start_dt, running_time, response, wake,
                   maxRtt, sampled, endedAt, overslept, gfVars>>

\* Lines 65, 71 and 76: the task is cancelled while it is suspended in an
\* await; CancelledError is raised there and nothing catches it.
Cancel(c) ==
    /\ pc[c] \in Suspended
    /\ pc' = [pc EXCEPT ![c] = "cancelled"]
    /\ result' = [result EXCEPT ![c] = [kind |-> "CancelledError", value |-> <<"", 0>>]]
    /\ wire' = Without(c)
    /\ endedAt' = [endedAt EXCEPT ![c] = now]
    /\ actor' = c
    /\ UNCHANGED <<now, token, timeout, start_dt, running_time, response, wake,
                   polls, sentAt, maxRtt, sampled, overslept, gfVars>>

\* A round trip the model lets a request take: at most maxr ticks, or about
\* a day.
RttAllowed(r, maxr) == r <= maxr \/ (r >= LongRtt /\ r <= LongRtt + maxr)

\* The clock advances by d ticks while some call is suspended: a sleep ends
\* at most `late` ticks after it is due (asyncio.sleep(1) lasts at least a
\* second), and a request in flight takes an allowed round trip.
Advance(d, maxr, late) ==
    /\ \E c \in AllCalls : pc[c] \in Suspended
    /\ now + d <= MaxNow
    /\ \A c \in AllCalls : pc[c] = "sleep" => now + d <= wake[c] + late
    /\ \A c \in AllCalls : pc[c] \in InFlight => RttAllowed(now + d - sentAt[c], maxr)
    /\ now' = now + d
    /\ actor' = 0
    /\ UNCHANGED <<pc, token, timeout, start_dt, running_time, response, wake,
                   result, wire, polls, sentAt, maxRtt, sampled, endedAt, overslept, gfVars>>


\* ------------------------------------------------------ GroupFolderManager
FolderIds == {5, 12}
GroupIds == {"staff", "dev"}
MountPoints == {"docs", "team/plans"}
Quotas == {-3, 0, 1024}
ObjectIds == {"alice", "staff"}
ObjectTypes == {"user", "group"}
\* What ocs_query may answer: a parsed envelope.
Replies == {"ok envelope", "failure envelope"}

\* class Permissions(IntFlag): the members and the value of each.
PermissionNames == {"read", "update", "create", "delete", "share"}
Permissions(m) ==
    CASE m = "read" -> 1
      [] m = "update" -> 2
      [] m = "create" -> 4
      [] m = "delete" -> 8
      [] m = "share" -> 16

\* permissions.value, for the member that is the bitwise OR of the members
\* named in p: they are distinct bits, so the OR is the sum.
RECURSIVE PermissionsValue(_)
PermissionsValue(p) ==
    IF p = {} THEN 0
    ELSE LET m == CHOOSE x \in p : TRUE
         IN  Permissions(m) + PermissionsValue(p \ {m})

\* f'{folder_id}' for an int.
FormatInt(i) == ToString(i)

folders_sub == "/apps/groupfolders/folders"

\* The arguments of one self.ocs_query(method=..., sub=..., data=...) call;
\* data is the dict as its (key, value) items, <<>> when it is not passed.
OcsQuery(method, sub, data) == <<method, sub, data>>

get_all_group_folders ==
    OcsQuery("GET", folders_sub, <<>>)

create_group_folder(path) ==
    OcsQuery("POST", folders_sub, << <<"mountpoint", path>> >>)

get_group_folder(folder_id) ==
    OcsQuery("GET", folders_sub \o "/" \o FormatInt(folder_id), <<>>)

remove_group_folder(folder_id) ==
    OcsQuery("DELETE", folders_sub \o "/" \o FormatInt(folder_id), <<>>)

add_group_to_group_folder(group_id, folder_id) ==
    OcsQuery("POST", folders_sub \o "/" \o FormatInt(folder_id) \o "/groups",
             << <<"group", group_id>> >>)

remove_group_from_group_folder(group_id, folder_id) ==
    OcsQuery("DELETE",
             folders_sub \o "/" \o FormatInt(folder_id) \o "/groups/" \o group_id,
             <<>>)

advanced_permissions(folder_id, enable) ==
    OcsQuery("POST", folders_sub \o "/" \o FormatInt(folder_id) \o "/acl",
             << <<"acl", IF enable THEN 1 ELSE 0>> >>)

enable_group_folder_advanced_permissions(folder_id) ==
    advanced_permissions(folder_id, TRUE)

disable_group_folder_advanced_permissions(folder_id) ==
    advanced_permissions(folder_id, FALSE)

advanced_permissions_admin(folder_id, object_id, object_type, manage_acl) ==
    OcsQuery("POST", folders_sub \o "/" \o FormatInt(folder_id) \o "/manageACL",
             << <<"mappingId", object_id>>, <<"mappingType", object_type>>,
                <<"manageAcl", manage_acl>> >>)

add_group_folder_advanced_permissions(folder_id, object_id, object_type) ==
    advanced_permissions_admin(folder_id, object_id, object_type, TRUE)

\* Mutant: the removal passes manage_acl=True, as the addition does.
remove_group_folder_advanced_permissions_Adds(folder_id, object_id, object_type) ==
    advanced_permissions_admin(folder_id, object_id, object_type, TRUE)

remove_group_folder_advanced_permissions(folder_id, object_id, object_type) ==
    advanced_permissions_admin(folder_id, object_id, object_type, FALSE)

set_group_folder_permissions(folder_id, group_id, permissions) ==
    OcsQuery("POST",
             folders_sub \o "/" \o FormatInt(folder_id) \o "/groups/" \o group_id,
             << <<"permissions", PermissionsValue(permissions)>> >>)

set_group_folder_quota(folder_id, quota) ==
    OcsQuery("POST", folders_sub \o "/" \o FormatInt(folder_id) \o "/quota",
             << <<"quota", quota>> >>)

rename_group_folder(folder_id, mountpoint) ==
    OcsQuery("POST", folders_sub \o "/" \o FormatInt(folder_id) \o "/mountpoint",
             << <<"mountpoint", mountpoint>> >>)

\* `return await self.ocs_query(...)`: the operation op makes the ocs_query
\* calls qs, ocs_query answers reply, and the operation returns the answer.
Operation(op, qs, reply) ==
    /\ gf_op' = op
    /\ ocs_calls' = qs
    /\ ocs_reply' = reply
    /\ gf_result' = reply
    /\ UNCHANGED loginVars

GetAllGroupFolders(reply) ==
    Operation(<<"get_all_group_folders">>, <<get_all_group_folders>>, reply)

CreateGroupFolder(path, reply) ==
    Operation(<<"create_group_folder", path>>,
              <<create_group_folder(path)>>, reply)

GetGroupFolder(folder_id, reply) ==
    Operation(<<"get_group_folder", folder_id>>,
              <<get_group_folder(folder_id)>>, reply)

RemoveGroupFolder(folder_id, reply) ==
    Operation(<<"remove_group_folder", folder_id>>,
              <<remove_group_folder(folder_id)>>, reply)

AddGroupToGroupFolder(group_id, folder_id, reply) ==
    Operation(<<"add_group_to_group_folder", group_id, folder_id>>,
              <<add_group_to_group_folder(group_id, folder_id)>>, reply)

RemoveGroupFromGroupFolder(group_id, folder_id, reply) ==
    Operation(<<"remove_group_from_group_folder", group_id, folder_id>>,
              <<remove_group_from_group_folder(group_id, folder_id)>>, reply)

EnableGroupFolderAdvancedPermissions(folder_id, reply) ==
    Operation(<<"enable_group_folder_advanced_permissions", folder_id>>,
              <<enable_group_folder_advanced_permissions(folder_id)>>, reply)

DisableGroupFolderAdvancedPermissions(folder_id, reply) ==
    Operation(<<"disable_group_folder_advanced_permissions", folder_id>>,
              <<disable_group_folder_advanced_permissions(folder_id)>>, reply)

AddGroupFolderAdvancedPermissions(folder_id, object_id, object_type, reply) ==
    Operation(<<"add_group_folder_advanced_permissions", folder_id, object_id, object_type>>,
              <<add_group_folder_advanced_permissions(folder_id, object_id, object_type)>>,
              reply)

RemoveGroupFolderAdvancedPermissions(folder_id, object_id, object_type, reply) ==
    Operation(<<"remove_group_folder_advanced_permissions", folder_id, object_id, object_type>>,
              <<remove_group_folder_advanced_permissions(folder_id, object_id, object_type)>>,
              reply)

SetGroupFolderPermissions(folder_id, group_id, permissions, reply) ==
    Operation(<<"set_group_folder_permissions", folder_id, group_id, permissions>>,
              <<set_group_folder_permissions(folder_id, group_id, permissions)>>, reply)

SetGroupFolderQuota(folder_id, quota, reply) ==
    Operation(<<"set_group_folder_quota", folder_id, quota>>,
              <<set_group_folder_quota(folder_id, quota)>>, reply)

RenameGroupFolder(folder_id, mountpoint, reply) ==
    Operation(<<"rename_group_folder", folder_id, mountpoint>>,
              <<rename_group_folder(folder_id, mountpoint)>>, reply)

Init ==
    /\ now = 0
    /\ pc = [c \in AllCalls |-> "idle"]
    /\ token = [c \in AllCalls |-> ""]
    /\ timeout = [c \in AllCalls |-> 0]
    /\ start_dt = [c \in AllCalls |-> 0]
    /\ running_time = [c \in AllCalls |-> 0]
    /\ response = [c \in AllCalls |-> NoResponse]
    /\ wake = [c \in AllCalls |-> 0]
    /\ result = [c \in AllCalls |-> NoResult]
    /\ wire = {}
    /\ polls = [c \in AllCalls |-> 0]
    /\ sentAt = [c \in AllCalls |-> 0]
    /\ maxRtt = [c \in AllCalls |-> 0]
    /\ sampled = [c \in AllCalls |-> 0]
    /\ actor = 0
    /\ endedAt = [c \in AllCalls |-> 0]
    /\ overslept = [c \in AllCalls |-> 0]
    /\ gf_op = <<"none">>
    /\ ocs_calls = <<>>
    /\ ocs_reply = "none"
    /\ gf_result = "none"


\* One login_flow_wait_confirm call, with round trips of up to a day.
Next ==
    \/ \E c \in SoloCalls, tok \in Tokens, T \in Timeouts : Call(c, tok, T)
    \/ \E c \in SoloCalls, st \in Statuses : ReceiveInitial(c, st)
    \/ \E c \in SoloCalls, st \in Statuses : ReceiveLoop(c, st)
    \/ \E c \in SoloCalls : Wake(c)
    \/ \E c \in SoloCalls : TransportError(c)
    \/ \E c \in SoloCalls : Cancel(c)
    \/ \E d \in Steps : Advance(d, MaxRtt, MaxOversleep)

Spec == Init /\ [][Next]_vars

\* Concurrent login_flow_wait_confirm calls on one client.
ConcNext ==
    \/ \E c \in AllCalls : \E tok \in ConcTokens(c), T \in ConcTimeouts : Call(c, tok, T)
    \/ \E c \in AllCalls, st \in ConcStatuses : ReceiveInitial(c, st)
    \/ \E c \in AllCalls, st \in ConcStatuses : ReceiveLoop(c, st)
    \/ \E c \in AllCalls : Wake(c)
    \/ \E c \in AllCalls : TransportError(c)
    \/ \E c \in AllCalls : Cancel(c)
    \/ \E d \in ConcSteps : Advance(d, ConcMaxRtt, 0)

ConcSpec == Init /\ [][ConcNext]_vars

\* The GroupFolderManager operations, in any order and with any arguments.
GFNext ==
    \/ \E r \in Replies : GetAllGroupFolders(r)
    \/ \E p \in MountPoints, r \in Replies : CreateGroupFolder(p, r)
    \/ \E f \in FolderIds, r \in Replies : GetGroupFolder(f, r)
    \/ \E f \in FolderIds, r \in Replies : RemoveGroupFolder(f, r)
    \/ \E g \in GroupIds, f \in FolderIds, r \in Replies : AddGroupToGroupFolder(g, f, r)
    \/ \E g \in GroupIds, f \in FolderIds, r \in Replies :
          RemoveGroupFromGroupFolder(g, f, r)
    \/ \E f \in FolderIds, r \in Replies : EnableGroupFolderAdvancedPermissions(f, r)
    \/ \E f \in FolderIds, r \in Replies : DisableGroupFolderAdvancedPermissions(f, r)
    \/ \E f \in FolderIds, o \in ObjectIds, t \in ObjectTypes, r \in Replies :
          AddGroupFolderAdvancedPermissions(f, o, t, r)
    \/ \E f \in FolderIds, o \in ObjectIds, t \in ObjectTypes, r \in Replies :
          RemoveGroupFolderAdvancedPermissions(f, o, t, r)
    \/ \E f \in FolderIds, g \in GroupIds, p \in SUBSET PermissionNames, r \in Replies :
          SetGroupFolderPermissions(f, g, p, r)
    \/ \E f \in FolderIds, q \in Quotas, r \in Replies : SetGroupFolderQuota(f, q, r)
    \/ \E f \in FolderIds, m \in MountPoints, r \in Replies : RenameGroupFolder(f, m, r)

GFSpec == Init /\ [][GFNext]_vars

\* ------------------------------------------------------------------ claims
Elapsed(c) == endedAt[c] - start_dt[c]
Answered(c) == response[c] # NoResponse
Is2xx(st) == st >= 200 /\ st <= 299

\* C1: once a poll of a call is answered with a status other than 404, that
\* poll is the last one the call issues (N polls when it is the Nth), the
\* call does not time out, and unless it is cancelled in the sleep that
\* follows it returns the parsed body of that Nth answer.
C1_ReturnsNthBody ==
    \A c \in AllCalls :
        (Answered(c) /\ response[c].status_code # NotFound) =>
            /\ response[c].json = <<token[c], polls[c]>>
            /\ pc[c] \in {"sleep", "returned", "cancelled"}
            /\ \A q \in wire : q.id # c
            /\ pc[c] = "returned" =>
                 result[c] = [kind |-> "return", value |-> <<token[c], polls[c]>>]

\* C1 witness: the third poll was answered 200 after two 404s and the call
\* returned its body.
C1_Witness ==
    /\ pc[1] = "returned"
    /\ polls[1] = 3
    /\ response[1].status_code = 200
    /\ result[1] = [kind |-> "return", value |-> <<token[1], 3>>]

\* C2 (as claimed): while every poll is answered 404 the call never returns
\* a body, raises the timeout only once timeout seconds have elapsed since
\* its start, and once the elapsed time it measured at line 75 has reached
\* the timeout it polls no more (Polling -> TimedOut), so that it ends.
C2_TimesOutOnceElapsed ==
    \A c \in AllCalls :
        (Answered(c) /\ response[c].status_code = NotFound) =>
            /\ pc[c] # "returned"
            /\ pc[c] = "timeout" => Elapsed(c) >= timeout[c] * TicksPerSec
            /\ pc[c] = "loop_request" => sampled[c] < timeout[c]

\* C3 (as claimed): a call that times out has issued at least timeout + 1
\* polls, whatever the round trips were (stated for the calls that end
\* within a day and whose sleeps lasted exactly one second, which are among
\* those the claim covers).
C3_AtLeastTimeoutPlusOnePolls ==
    \A c \in AllCalls :
        (pc[c] = "timeout" /\ Elapsed(c) < Day /\ overslept[c] = 0) =>
            polls[c] >= timeout[c] + 1

\* C3 (amended): a call that times out after round trips that took no time
\* and sleeps of exactly one second has issued at least timeout + 1 polls.
C3_AtLeastTimeoutPlusOnePollsWhenInstant ==
    \A c \in AllCalls :
        (pc[c] = "timeout" /\ maxRtt[c] = 0 /\ overslept[c] = 0) =>
            polls[c] >= timeout[c] + 1

\* C3 witness: a timeout of 3 seconds, instant round trips: 5 polls.
C3_Witness ==
    /\ pc[1] = "timeout"
    /\ maxRtt[1] = 0
    /\ overslept[1] = 0
    /\ timeout[1] = MaxTimeout
    /\ polls[1] = MaxTimeout + 2

\* C4 (as claimed): an answer that is neither 2xx nor 404 is never returned
\* to the caller as the result of the call.
C4_ErrorStatusNotReturned ==
    \A c \in AllCalls : pc[c] = "returned" => Is2xx(response[c].status_code)

\* C4 (amended): an answer that is neither 2xx nor 404 ends the polling like
\* any other answer that is not 404: no poll follows it, and the call that
\* runs to its end returns the parsed body of that answer; it raises nothing.
C4_ErrorStatusReturnedAsBody ==
    \A c \in AllCalls :
        (Answered(c) /\ response[c].status_code # NotFound
                     /\ ~Is2xx(response[c].status_code)) =>
            /\ pc[c] \notin InFlight
            /\ pc[c] \in Ended \ {"cancelled"} =>
                 /\ pc[c] = "returned"
                 /\ result[c] = [kind |-> "return", value |-> response[c].json]

\* C4 witness: a 500 answer was returned to the caller.
C4_Witness ==
    /\ pc[1] = "returned"
    /\ response[1].status_code = 500
    /\ result[1].kind = "return"
    /\ polls[1] = 2

\* C5: a transport error ends the call with that error: the call has no
\* request in flight, it has neither returned a body nor timed out, and from
\* then on it issues no poll and its outcome stays the error.
C5_TransportErrorPropagates ==
    /\ [](\A c \in AllCalls :
            /\ pc[c] = "transport_error" =>
                 /\ result[c].kind = "TransportError"
                 /\ \A q \in wire : q.id # c
            /\ result[c].kind = "TransportError" => pc[c] = "transport_error")
    /\ [][\A c \in AllCalls :
            pc[c] = "transport_error" =>
                /\ pc'[c] = pc[c]
                /\ polls'[c] = polls[c]
                /\ result'[c] = result[c]]_vars

\* C5 witness: the third poll failed with a transport error.
C5_Witness ==
    /\ pc[1] = "transport_error"
    /\ polls[1] = 3
    /\ result[1].kind = "TransportError"

\* C6: a call cancelled in its sleep or while it awaits a poll ends there:
\* it has no request in flight, has neither returned a body nor timed out,
\* and from then on it issues no poll.
C6_CancelStopsPolling ==
    /\ [](\A c \in AllCalls :
            /\ pc[c] = "cancelled" =>
                 /\ result[c].kind = "CancelledError"
                 /\ \A q \in wire : q.id # c
            /\ result[c].kind = "CancelledError" => pc[c] = "cancelled")
    /\ [][\A c \in AllCalls :
            pc[c] = "cancelled" =>
                /\ pc'[c] = pc[c]
                /\ polls'[c] = polls[c]
                /\ result'[c] = result[c]]_vars

\* C6 witness: the call was cancelled after its second poll, still pending.
C6_Witness ==
    /\ pc[1] = "cancelled"
    /\ polls[1] = 2
    /\ response[1].status_code = NotFound

\* What a call holds: its arguments, its locals and its outcome.
Locals(c) ==
    <<pc[c], token[c], timeout[c], start_dt[c], running_time[c], response[c],
      wake[c], result[c], polls[c], sentAt[c], endedAt[c]>>

\* C7: concurrent calls do not interfere: a step of one call, or of the
\* clock, changes nothing another call holds; the polls of a call carry its
\* own token; its running time is measured from its own start; and the body
\* it returns is the answer to its own last poll.
C7_CallsIndependent ==
    /\ [][\A c \in AllCalls : actor' # c => Locals(c)' = Locals(c)]_vars
    /\ [](\A c \in AllCalls :
            /\ \A q \in wire : q.id = c => (q.token = token[c] /\ q.n = polls[c])
            /\ pc[c] = "sleep" =>
                 running_time[c] =
                     TimedeltaSeconds(wake[c] - SleepSeconds * TicksPerSec - start_dt[c])
            /\ pc[c] = "returned" => result[c].value = <<token[c], polls[c]>>)

\* C7 witness: two calls with different tokens and start times in progress,
\* one asleep and one awaiting a poll, each after a poll of the other.
C7_Witness ==
    /\ pc[1] = "sleep"
    /\ pc[2] = "loop_request"
    /\ token[1] # token[2]
    /\ start_dt[1] # start_dt[2]
    /\ running_time[1] # running_time[2]

\* The request of section 4.2's table for the operation op.
TableFolder(id) == "/apps/groupfolders/folders/" \o ToString(id)
Bitmask(p) ==
    (IF "read" \in p THEN 1 ELSE 0) + (IF "update" \in p THEN 2 ELSE 0)
    + (IF "create" \in p THEN 4 ELSE 0) + (IF "delete" \in p THEN 8 ELSE 0)
    + (IF "share" \in p THEN 16 ELSE 0)
Table(op) ==
    CASE op[1] = "get_all_group_folders" ->
            <<"GET", "/apps/groupfolders/folders", <<>> >>
      [] op[1] = "create_group_folder" ->
            <<"POST", "/apps/groupfolders/folders", << <<"mountpoint", op[2]>> >> >>
      [] op[1] = "get_group_folder" -> <<"GET", TableFolder(op[2]), <<>> >>
      [] op[1] = "remove_group_folder" -> <<"DELETE", TableFolder(op[2]), <<>> >>
      [] op[1] = "add_group_to_group_folder" ->
            <<"POST", TableFolder(op[3]) \o "/groups", << <<"group", op[2]>> >> >>
      [] op[1] = "remove_group_from_group_folder" ->
            <<"DELETE", TableFolder(op[3]) \o "/groups/" \o op[2], <<>> >>
      [] op[1] = "enable_group_folder_advanced_permissions" ->
            <<"POST", TableFolder(op[2]) \o "/acl", << <<"acl", 1>> >> >>
      [] op[1] = "disable_group_folder_advanced_permissions" ->
            <<"POST", TableFolder(op[2]) \o "/acl", << <<"acl", 0>> >> >>
      [] op[1] = "add_group_folder_advanced_permissions" ->
            <<"POST", TableFolder(op[2]) \o "/manageACL",
              << <<"mappingId", op[3]>>, <<"mappingType", op[4]>>,
                 <<"manageAcl", TRUE>> >> >>
      [] op[1] = "remove_group_folder_advanced_permissions" ->
            <<"POST", TableFolder(op[2]) \o "/manageACL",
              << <<"mappingId", op[3]>>, <<"mappingType", op[4]>>,
                 <<"manageAcl", FALSE>> >> >>
      [] op[1] = "set_group_folder_permissions" ->
            <<"POST", TableFolder(op[2]) \o "/groups/" \o op[3],
              << <<"permissions", Bitmask(op[4])>> >> >>
      [] op[1] = "set_group_folder_quota" ->
            <<"POST", TableFolder(op[2]) \o "/quota", << <<"quota", op[3]>> >> >>
      [] op[1] = "rename_group_folder" ->
            <<"POST", TableFolder(op[2]) \o "/mountpoint",
              << <<"mountpoint", op[3]>> >> >>

\* C8: every GroupFolderManager operation makes exactly one ocs_query call,
\* the one of section 4.2's table for its arguments, and returns what
\* ocs_query answered; set_group_folder_quota(5, -3) posts {quota: -3} to
\* /apps/groupfolders/folders/5/quota.
C8_OneQueryPerOperation ==
    gf_op # <<"none">> =>
        /\ ocs_calls = <<Table(gf_op)>>
        /\ gf_result = ocs_reply
        /\ gf_op = <<"set_group_folder_quota", 5, -3>> =>
             ocs_calls = << <<"POST", "/apps/groupfolders/folders/5/quota",
                              << <<"quota", -3>> >> >> >>

\* C8 witness: an ACL manager was removed from folder 12.
C8_Witness ==
    /\ gf_op = <<"remove_group_folder_advanced_permissions", 12, "alice", "user">>
    /\ ocs_calls = << <<"POST", "/apps/groupfolders/folders/12/manageACL",
                        << <<"mappingId", "alice">>, <<"mappingType", "user">>,
                           <<"manageAcl", FALSE>> >> >> >>
    /\ gf_result = "ok envelope"

\* C9 (as claimed): the timeout is raised no earlier than timeout seconds
\* after the start of the call and no later than one second and one round
\* trip after that (stated for the calls whose sleeps lasted exactly one
\* second, which are among those the claim covers).
C9_RaisedWithinOneIntervalAndRoundTrip ==
    \A c \in AllCalls :
        (pc[c] = "timeout" /\ overslept[c] = 0) =>
            /\ Elapsed(c) >= timeout[c] * TicksPerSec
            /\ Elapsed(c) <= timeout[c] * TicksPerSec + SleepSeconds * TicksPerSec
                             + maxRtt[c]

\* C9 (amended): a timeout raised less than a day after the start of the
\* call is raised no earlier than timeout seconds after the start and less
\* than two sleeps (of one second, plus what they lasted beyond it) and two
\* round trips after that.
C9_RaisedWithinTwoIntervalsAndRoundTrips ==
    \A c \in AllCalls :
        (pc[c] = "timeout" /\ Elapsed(c) < Day) =>
            /\ Elapsed(c) >= timeout[c] * TicksPerSec
            /\ Elapsed(c) < timeout[c] * TicksPerSec
                            + 2 * (SleepSeconds * TicksPerSec + overslept[c])
                            + 2 * maxRtt[c]

\* C9 witness: a timeout raised later than one second and one round trip
\* after the timeout's seconds have passed.
C9_Witness ==
    /\ pc[1] = "timeout"
    /\ timeout[1] >= 1
    /\ overslept[1] = 0
    /\ Elapsed(1) < Day
    /\ Elapsed(1) > timeout[1] * TicksPerSec + SleepSeconds * TicksPerSec + maxRtt[1]

\* C10 (as claimed): a call issues at most timeout + 2 polls; with a timeout
\* of 0 it issues one poll and never sleeps.
C10_AtMostTimeoutPlusTwoPolls ==
    \A c \in AllCalls :
        /\ polls[c] <= timeout[c] + 2
        /\ (pc[c] # "idle" /\ timeout[c] = 0) => (polls[c] = 1 /\ pc[c] # "sleep")

====
